---- MODULE Spec2Model ----
(***************************************************************************)
(* RiftAnalyzer (src/backend/analyzer.py): the six detection passes run by *)
(* detect_patterns over one batch of transactions, the two registries they *)
(* write (suspicious_accounts, fraud_rings) and the report.                *)
(*                                                                         *)
(* Account ids are opaque strings in the program.  Here an account is an   *)
(* integer, and the order of the integers is the lexicographic order of    *)
(* the ids: 1,2,3 = "ACC_A","ACC_B","ACC_C"; 4,5,6 = "CLN_1".."CLN_3"       *)
(* (the ids with prefix "CLN" are an interval of that order); 11.. =       *)
(* "SMURF_01"...  Scores are kept in hundredths (96.0 is 9600), which is   *)
(* exact for every score the passes compute (two decimals at most).        *)
(* Timestamps are seconds.                                                 *)
(*                                                                         *)
(* Python iterates a set of str in an order that changes from run to run   *)
(* (hash randomisation).  Where that order decides WHAT is registered (the *)
(* root and order of enumerated cycles, the order of collectors and of     *)
(* bridge pairs, which members survive a [:10] cut) the model branches on  *)
(* it.  Where it only arranges accounts inside one stretch of a            *)
(* member_accounts list (list(mules), list(ring members)) the stretch is   *)
(* written in ascending order and stands for all its arrangements: no pass *)
(* reads that arrangement back.                                            *)
(***************************************************************************)
EXTENDS Integers, Sequences, FiniteSets, TLC

VARIABLES df, pc, suspicious_accounts, fraud_rings, ring_counters,
          _ring_members, _account_rings, _rings_by_type, _cycle_members,
          report,
          calls    \* history: the <<account, score, role>> of every _update_account call

vars == <<df, pc, suspicious_accounts, fraud_rings, ring_counters,
          _ring_members, _account_rings, _rings_by_type, _cycle_members,
          report, calls>>

(***************************************************************************)
(* Bounds of the explored inputs.                                          *)
(***************************************************************************)
\* rows of a free core input (any subset of CoreCand of at most this size)
MaxCoreEdges == 4
\* rows left out of the diamond input (DiamondCand minus at most this many)
MaxDropped == 2
\* smurf accounts of a fan input (SMURF_MIN - 1 .. MaxSmurfs of them)
MaxSmurfs == 11

(***************************************************************************)
(* Program constants.                                                      *)
(***************************************************************************)
MAX_CYCLES == 2000
CYCLE_LENGTH_BOUND == 6
CYCLE_MIN_LEN == 3
SMURF_MIN == 10
SMURF_WINDOW_SECONDS == 259200
SHELL_MIN_LEN == 3
SHELL_TRACE_CAP == 50
CONSOL_MIN == 3
MAX_RINGS == 200
CROSS_SIDE_CAP == 10

(***************************************************************************)
(* Sequences and sets.                                                     *)
(***************************************************************************)
Range(s) == {s[i] : i \in DOMAIN s}

Min(a, b) == IF a <= b THEN a ELSE b

Max(a, b) == IF a >= b THEN a ELSE b

\* sorted(S) for a set of accounts
RECURSIVE SortAsc(_)
SortAsc(S) ==
    IF S = {} THEN <<>>
    ELSE LET m == CHOOSE x \in S : \A y \in S : x <= y
         IN <<m>> \o SortAsc(S \ {m})

\* dict.fromkeys(xs) / Series.unique(): the first occurrences, in order
Dedup(s) ==
    LET first == SortAsc({i \in DOMAIN s : \A j \in 1..(i - 1) : s[j] # s[i]})
    IN [k \in DOMAIN first |-> s[first[k]]]

\* TLC hands an operator its arguments unevaluated: a fold that never reads
\* its accumulator ends with one expression as deep as the fold is long.
\* Evaluated(v) reads v.
Evaluated(v) == v = v

\* every order in which the elements of S can be iterated
RECURSIVE Orders(_)
Orders(S) ==
    IF S = {} THEN {<<>>}
    ELSE UNION {{<<x>> \o o : o \in Orders(S \ {x})} : x \in S}

(***************************************************************************)
(* _is_normal: the account id starts with "CLN".                           *)
(***************************************************************************)
_is_normal(account_id) == account_id \in 4..6

(***************************************************************************)
(* Inputs: the validated rows RiftAnalyzer.__init__ receives.  A row's     *)
(* transaction_id is its position (unique, as the parser requires).        *)
(***************************************************************************)
Row(s, r, a, t) == [sender_id |-> s, receiver_id |-> r, amount |-> a, timestamp |-> t]

\* one-hour spacing, as the generators of src/data space a ring's hops
CoreCand ==
    << <<1, 2>>, <<2, 3>>, <<3, 1>>, <<2, 1>>, <<1, 1>>, <<3, 4>>,
       <<4, 5>>, <<5, 6>>, <<6, 4>>, <<6, 1>>, <<5, 1>>, <<2, 5>> >>

DiamondCand ==
    << <<1, 2>>, <<1, 3>>, <<1, 4>>, <<2, 5>>, <<3, 5>>, <<4, 5>>,
       <<5, 1>>, <<1, 1>>, <<5, 5>>, <<1, 5>> >>

RowsOf(cand, keep) ==
    LET idx == SelectSeq([i \in 1..Len(cand) |-> i], LAMBDA i : i \in keep)
    IN [k \in 1..Len(idx) |->
          Row(cand[idx[k]][1], cand[idx[k]][2], 1000 + idx[k], 3600 * idx[k])]

CoreInputs ==
    {RowsOf(CoreCand, keep) :
        keep \in {K \in SUBSET (1..Len(CoreCand)) : Cardinality(K) <= MaxCoreEdges}}

DiamondInputs ==
    {RowsOf(DiamondCand, (1..Len(DiamondCand)) \ drop) :
        drop \in {K \in SUBSET (1..Len(DiamondCand)) : Cardinality(K) <= MaxDropped}}

(***************************************************************************)
(* Fan inputs: pivot 2 and n smurf accounts 11..10+n, one transaction      *)
(* each, one hour apart.  late = 1 puts the last smurf's transaction       *)
(* exactly 72 h after the first, late = 2 one second later.  dup adds a    *)
(* second transaction of the first smurf.  base "cycle" adds a ring        *)
(* around the pivot (1 -> 2 -> 3 -> 1 for a receiving pivot,               *)
(* 2 -> 1 -> 3 -> 2 for a sending one), its hops 31 days later; base       *)
(* "busy" adds, besides, 19 more transactions between the pivot and its    *)
(* cycle peer 1, one a day; base "self" adds, to a plain fan, a            *)
(* transaction of the pivot with itself.                                   *)
(***************************************************************************)
DaySeconds == 24 * 3600

FanRow(isIn, other, t) ==
    IF isIn THEN Row(other, 2, 495, t) ELSE Row(2, other, 495, t)

SmurfRows(isIn, n, late) ==
    [i \in 1..n |->
        FanRow(isIn, 10 + i,
               IF i = n /\ late = 1 THEN 3600 + SMURF_WINDOW_SECONDS
               ELSE IF i = n /\ late = 2 THEN 3600 + SMURF_WINDOW_SECONDS + 1
               ELSE 3600 * i)]

CycleRows(isIn) ==
    IF isIn
    THEN << Row(1, 2, 1250, 31 * DaySeconds), Row(2, 3, 1250, 31 * DaySeconds + 3600),
            Row(3, 1, 1250, 31 * DaySeconds + 7200) >>
    ELSE << Row(2, 1, 1250, 31 * DaySeconds), Row(1, 3, 1250, 31 * DaySeconds + 3600),
            Row(3, 2, 1250, 31 * DaySeconds + 7200) >>

BusyRows(isIn) == [k \in 1..19 |-> FanRow(isIn, 1, k * DaySeconds)]

FanInput(isIn, n, late, dup, base) ==
    (IF base \in {"cycle", "busy"} THEN CycleRows(isIn) ELSE <<>>)
    \o SmurfRows(isIn, n, late)
    \o (IF dup THEN <<FanRow(isIn, 11, 7200)>> ELSE <<>>)
    \o (IF base = "busy" THEN BusyRows(isIn) ELSE <<>>)
    \o (IF base = "self" THEN <<Row(2, 2, 495, 1800)>> ELSE <<>>)

\* alone, the fan has up to MaxSmurfs smurfs; around a cycle, one more than
\* SMURF_MIN at most (a cross ring then cuts its members to ten)
FanInputs ==
    {FanInput(isIn, n, late, dup, "none") :
        isIn \in BOOLEAN, n \in (SMURF_MIN - 1)..MaxSmurfs, late \in 0..2, dup \in BOOLEAN}
    \cup
    {FanInput(isIn, n, late, dup, "cycle") :
        isIn \in BOOLEAN, n \in (SMURF_MIN - 1)..(SMURF_MIN + 1), late \in 0..2,
        dup \in BOOLEAN}
    \cup
    {FanInput(isIn, SMURF_MIN, late, dup, "busy") :
        isIn \in BOOLEAN, late \in 0..2, dup \in BOOLEAN}
    \cup
    {FanInput(isIn, n, 0, FALSE, "self") :
        isIn \in BOOLEAN, n \in (SMURF_MIN - 1)..SMURF_MIN}

(***************************************************************************)
(* The seed scenarios.  S1: accounts A, B, C, D are 1, 2, 3, 7 and the     *)
(* rows A -> B, B -> C, C -> D, D -> A are one hour apart, 1250 each.      *)
(* S3: accounts D, M1, M2, M3, M4, S are 21..26 (their order as strings)   *)
(* and the rows follow the chain S -> M1 -> M2 -> M3 -> M4 -> D.           *)
(***************************************************************************)
S1Rows ==
    << Row(1, 2, 1250, 3600), Row(2, 3, 1250, 7200),
       Row(3, 7, 1250, 10800), Row(7, 1, 1250, 14400) >>

S3Rows ==
    << Row(26, 22, 1000, 3600), Row(22, 23, 1000, 7200), Row(23, 24, 1000, 10800),
       Row(24, 25, 1000, 14400), Row(25, 21, 1000, 18000) >>

ScenarioInputs == {S1Rows, S3Rows}

Inputs == CoreInputs \cup DiamondInputs \cup FanInputs \cup ScenarioInputs

(***************************************************************************)
(* The MultiDiGraph built by nx.from_pandas_edgelist: nodes in order of    *)
(* first appearance (sender before receiver, row by row), one edge a row.  *)
(***************************************************************************)
Endpoints(rows) ==
    [i \in 1..(2 * Len(rows)) |->
        IF i % 2 = 1 THEN rows[(i + 1) \div 2].sender_id ELSE rows[i \div 2].receiver_id]

\* list(G.nodes())
Nodes(rows) == Dedup(Endpoints(rows))

NodeSet(rows) == Range(Nodes(rows))

\* the (u, v) with at least one edge u -> v
EdgeSet(rows) == {<<rows[i].sender_id, rows[i].receiver_id>> : i \in DOMAIN rows}

\* list(G.successors(n)): the distinct successors, in order of first edge
Successors(rows, n) ==
    Dedup([i \in 1..Len(SelectSeq(rows, LAMBDA r : r.sender_id = n)) |->
              SelectSeq(rows, LAMBDA r : r.sender_id = n)[i].receiver_id])

\* G.in_degree / G.out_degree: parallel edges counted one by one
_in_deg(rows, n) == Cardinality({i \in DOMAIN rows : rows[i].receiver_id = n})

_out_deg(rows, n) == Cardinality({i \in DOMAIN rows : rows[i].sender_id = n})

(***************************************************************************)
(* The analyzer's registries, as one record while a pass runs:             *)
(*   sa  suspicious_accounts (a dict: a list in insertion order)           *)
(*   fr  fraud_rings          rc  ring_counters                            *)
(*   rm  _ring_members        ar  _account_rings                           *)
(*   rbt _rings_by_type       cm  _cycle_members                           *)
(*   calls  the history variable                                           *)
(* A ring id "RING_<PFX>_<NNN>" is the record [prefix, n].  A pattern tag  *)
(* f"{text}{label}{number}" is the triple <<text, label, number>>.         *)
(* overlap_with is <<>> for None and <<rid_a, rid_b>> for "rid_a x rid_b". *)
(***************************************************************************)
Registries ==
    [sa  |-> suspicious_accounts, fr |-> fraud_rings, rc |-> ring_counters,
     rm  |-> _ring_members, ar |-> _account_rings, rbt |-> _rings_by_type,
     cm  |-> _cycle_members, calls |-> calls]

Store(st) ==
    /\ suspicious_accounts' = st.sa
    /\ fraud_rings' = st.fr
    /\ ring_counters' = st.rc
    /\ _ring_members' = st.rm
    /\ _account_rings' = st.ar
    /\ _rings_by_type' = st.rbt
    /\ _cycle_members' = st.cm
    /\ calls' = st.calls

\* dict.get(key, default)
Get(f, key, default) == IF key \in DOMAIN f THEN f[key] ELSE default

\* dict[key] = value
Put(f, key, value) == (key :> value) @@ f

_ROLE_PRIORITY(role) ==
    CASE role = "collector" -> 3
      [] role = "source"    -> 2
      [] role = "layer"     -> 1
      [] OTHER              -> 0

Ring(rid, members, ptype, score, bridges, overlap) ==
    [ring_id |-> rid, member_accounts |-> members, pattern_type |-> ptype,
     risk_score |-> score, bridge_nodes |-> bridges, overlap_with |-> overlap]

\* the history of calls, kept beside the registries
Logged(st, acc_id, score, role) ==
    [st EXCEPT !.calls = @ \cup {<<acc_id, score, role>>}]

\* mutant: a later update always takes the role of the update
_update_account_LastRole(st, acc_id, score, pattern, rid, role) ==
    LET at == {i \in DOMAIN st.sa : st.sa[i].account_id = acc_id}
    IN IF at = {}
       THEN [Logged(st, acc_id, score, role) EXCEPT !.sa = Append(@,
                [account_id |-> acc_id, suspicion_score |-> score,
                 detected_patterns |-> <<pattern>>, ring_id |-> rid, role |-> role])]
       ELSE LET i == CHOOSE j \in at : TRUE
            IN [Logged(st, acc_id, score, role) EXCEPT !.sa[i] =
                  [@ EXCEPT
                     !.suspicion_score = Max(@, score),
                     !.detected_patterns =
                         IF pattern \in Range(@) THEN @ ELSE Append(@, pattern),
                     !.role = role]]

\* mutant: a later update adds its score to the score
_update_account_Additive(st, acc_id, score, pattern, rid, role) ==
    LET at == {i \in DOMAIN st.sa : st.sa[i].account_id = acc_id}
    IN IF at = {}
       THEN [Logged(st, acc_id, score, role) EXCEPT !.sa = Append(@,
                [account_id |-> acc_id, suspicion_score |-> score,
                 detected_patterns |-> <<pattern>>, ring_id |-> rid, role |-> role])]
       ELSE LET i == CHOOSE j \in at : TRUE
            IN [Logged(st, acc_id, score, role) EXCEPT !.sa[i] =
                  [@ EXCEPT
                     !.suspicion_score = @ + score,
                     !.detected_patterns =
                         IF pattern \in Range(@) THEN @ ELSE Append(@, pattern),
                     !.role =
                         IF _ROLE_PRIORITY(role) > _ROLE_PRIORITY(@) THEN role ELSE @]]

\* mutant: a later update takes the ring of the update
_update_account_LastRing(st, acc_id, score, pattern, rid, role) ==
    LET at == {i \in DOMAIN st.sa : st.sa[i].account_id = acc_id}
    IN IF at = {}
       THEN [Logged(st, acc_id, score, role) EXCEPT !.sa = Append(@,
                [account_id |-> acc_id, suspicion_score |-> score,
                 detected_patterns |-> <<pattern>>, ring_id |-> rid, role |-> role])]
       ELSE LET i == CHOOSE j \in at : TRUE
            IN [Logged(st, acc_id, score, role) EXCEPT !.sa[i] =
                  [@ EXCEPT
                     !.suspicion_score = Max(@, score),
                     !.detected_patterns =
                         IF pattern \in Range(@) THEN @ ELSE Append(@, pattern),
                     !.ring_id = rid,
                     !.role =
                         IF _ROLE_PRIORITY(role) > _ROLE_PRIORITY(@) THEN role ELSE @]]

_update_account(st, acc_id, score, pattern, rid, role) ==
    LET at == {i \in DOMAIN st.sa : st.sa[i].account_id = acc_id}
    IN IF at = {}
       THEN [Logged(st, acc_id, score, role) EXCEPT !.sa = Append(@,
                [account_id |-> acc_id, suspicion_score |-> score,
                 detected_patterns |-> <<pattern>>, ring_id |-> rid, role |-> role])]
       ELSE LET i == CHOOSE j \in at : TRUE
            IN [Logged(st, acc_id, score, role) EXCEPT !.sa[i] =
                  [@ EXCEPT
                     !.suspicion_score = Max(@, score),
                     !.detected_patterns =
                         IF pattern \in Range(@) THEN @ ELSE Append(@, pattern),
                     !.role =
                         IF _ROLE_PRIORITY(role) > _ROLE_PRIORITY(@) THEN role ELSE @]]

RECURSIVE AttachRing(_, _, _)
AttachRing(ar, members, rid) ==
    IF members = <<>> \/ ~ Evaluated(ar) THEN ar
    ELSE AttachRing(Put(ar, members[1], Append(Get(ar, members[1], <<>>), rid)),
                    Tail(members), rid)

\* mutant: the ring is put at the head of fraud_rings
_register_ring_Prepend(st, ring_dict) ==
    [st EXCEPT
       !.fr  = <<ring_dict>> \o @,
       !.rm  = Put(@, ring_dict.ring_id, Range(ring_dict.member_accounts)),
       !.ar  = AttachRing(@, ring_dict.member_accounts, ring_dict.ring_id),
       !.rbt = Put(@, ring_dict.pattern_type,
                   Append(Get(@, ring_dict.pattern_type, <<>>), ring_dict.ring_id))]

_register_ring(st, ring_dict) ==
    [st EXCEPT
       !.fr  = Append(@, ring_dict),
       !.rm  = Put(@, ring_dict.ring_id, Range(ring_dict.member_accounts)),
       !.ar  = AttachRing(@, ring_dict.member_accounts, ring_dict.ring_id),
       !.rbt = Put(@, ring_dict.pattern_type,
                   Append(Get(@, ring_dict.pattern_type, <<>>), ring_dict.ring_id))]

\* _next_rid: the id it returns, and the registries after it
NextRid(st, prefix) == [prefix |-> prefix, n |-> st.rc[prefix]]

_next_rid(st, prefix) == [st EXCEPT !.rc[prefix] = @ + 1]

_cycle_peers_of(st, account) ==
    UNION {Get(st.rm, rid, {}) :
              rid \in {r \in Range(Get(st.ar, account, <<>>)) : r.prefix = "CYC"}}

\* mutant: the loop starts one account late
RECURSIVE UpdateEach_SkipFirst(_, _, _, _, _, _)
UpdateEach_SkipFirst(st, accs, scores, pattern, rid, roles) ==
    IF Len(accs) <= 1 \/ ~ Evaluated(st) THEN st
    ELSE UpdateEach_SkipFirst(
             _update_account(st, accs[2], scores[2], pattern, rid, roles[2]),
             Tail(accs), Tail(scores), pattern, rid, Tail(roles))

\* one _update_account per listed account, in order: scores[i], roles[i]
RECURSIVE UpdateEach(_, _, _, _, _, _)
UpdateEach(st, accs, scores, pattern, rid, roles) ==
    IF accs = <<>> \/ ~ Evaluated(st) THEN st
    ELSE UpdateEach(_update_account(st, accs[1], scores[1], pattern, rid, roles[1]),
                    Tail(accs), Tail(scores), pattern, rid, Tail(roles))

(***************************************************************************)
(* PASS 1: cycles.                                                         *)
(***************************************************************************)
RECURSIVE ReachFrom(_, _, _)
ReachFrom(E, frontier, seen) ==
    LET nxt == {e[2] : e \in {d \in E : d[1] \in frontier}} \ seen
    IN IF nxt = {} THEN seen ELSE ReachFrom(E, nxt, seen \cup nxt)

Reach(E, u) == ReachFrom(E, {u}, {})

Induced(E, c) == {e \in E : e[1] \in c /\ e[2] \in c}

\* nx.strongly_connected_components, as a set of components
StronglyConnectedComponents(E, N) ==
    {{u} \cup {v \in Reach(E, u) : u \in Reach(E, v)} : u \in N}

\* _bounded_cycle_search(G, path, length_bound): the simple cycles through
\* path[1] that extend path, each as the list of its nodes from path[1] on
RECURSIVE BoundedCycleSearch(_, _)
BoundedCycleSearch(E, path) ==
    LET last == path[Len(path)]
    IN (IF <<last, path[1]>> \in E THEN {path} ELSE {})
       \cup
       (IF Len(path) < CYCLE_LENGTH_BOUND
        THEN UNION {BoundedCycleSearch(E, Append(path, e[2])) :
                       e \in {d \in E : d[1] = last /\ d[2] \notin Range(path)}}
        ELSE {})

\* _directed_cycle_search on a loop-free DiGraph: pop a component, take a
\* root v of it (next(iter(c))), yield the cycles through v, delete v, push
\* the components (of two nodes or more) of what is left.  The set of the
\* sequences of cycles it can yield.
RECURSIVE DirectedCycleSearch(_, _)
DirectedCycleSearch(E, components) ==
    IF components = <<>> THEN {<<>>}
    ELSE LET c    == components[Len(components)]
             rest == SubSeq(components, 1, Len(components) - 1)
         IN UNION {
              LET E2   == {e \in E : e[1] # v /\ e[2] # v}
                  left == {s \in StronglyConnectedComponents(Induced(E2, c), c \ {v}) :
                              Cardinality(s) >= 2}
              IN UNION {UNION {{o \o t : t \in DirectedCycleSearch(E2, rest \o p)} :
                                  p \in Orders(left)} :
                           o \in Orders(BoundedCycleSearch(Induced(E, c), <<v>>))}
              : v \in c}

\* nx.simple_cycles(sub, length_bound=6) on the MultiDiGraph view of one
\* component: the self-loops first, as cycles of one node, then the search
\* on the DiGraph without loops and parallel edges
SimpleCycles(E, scc) ==
    LET sub   == Induced(E, scc)
        loops == {<<e[1]>> : e \in {d \in sub : d[1] = d[2]}}
        plain == {e \in sub : e[1] # e[2]}
    IN UNION {{l \o o : o \in DirectedCycleSearch(plain, <<scc>>)} : l \in Orders(loops)}

\* the cycles the loop body reaches before `len(cycle) < 3` breaks out
RECURSIVE UntilShort(_)
UntilShort(cycles) ==
    IF cycles = <<>> \/ Len(cycles[1]) < CYCLE_MIN_LEN THEN <<>>
    ELSE <<cycles[1]>> \o UntilShort(Tail(cycles))

\* sorted(sccs, key=len): ascending size, equal sizes in networkx's order
SccOrders(sccs) ==
    {o \in Orders(sccs) :
        \A i \in 1..(Len(o) - 1) : Cardinality(o[i]) <= Cardinality(o[i + 1])}

RECURSIVE CycleSeqs(_, _)
CycleSeqs(E, sccs) ==
    IF sccs = <<>> THEN {<<>>}
    ELSE {UntilShort(y) \o t : y \in SimpleCycles(E, sccs[1]), t \in CycleSeqs(E, Tail(sccs))}

\* the sequences of cycles _detect_cycles can register for these rows
CycleEmissions(rows) ==
    LET E    == EdgeSet(rows)
        sccs == {c \in StronglyConnectedComponents(E, NodeSet(rows)) :
                    /\ Cardinality(c) >= CYCLE_MIN_LEN
                    /\ ~ \A n \in c : _is_normal(n)}
    IN {SubSeq(s, 1, Min(Len(s), MAX_CYCLES)) :
           s \in UNION {CycleSeqs(E, o) : o \in SccOrders(sccs)}}

CycleScore(cycle) == Min(9600, 8000 + Len(cycle) * 400)

EmitCycle(st, cycle) ==
    LET rid     == NextRid(st, "CYC")
        score   == CycleScore(cycle)
        members == Dedup(cycle)
        reg     == _register_ring(_next_rid(st, "CYC"),
                                  Ring(rid, members, "cycle", score, <<>>, <<>>))
        upd     == UpdateEach(reg, members, [i \in DOMAIN members |-> score],
                              <<"circular_routing, length_", "", Len(members)>>, rid,
                              [i \in DOMAIN members |-> IF i = 1 THEN "source" ELSE "layer"])
    IN [upd EXCEPT !.cm = @ \cup Range(members)]

RECURSIVE EmitCycles(_, _)
EmitCycles(st, cycles) ==
    IF cycles = <<>> \/ ~ Evaluated(st) THEN st
    ELSE EmitCycles(EmitCycle(st, cycles[1]), Tail(cycles))

_detect_cycles ==
    /\ pc = "cycles"
    /\ \E cycles \in CycleEmissions(df) : Store(EmitCycles(Registries, cycles))
    /\ pc' = "fan_in"
    /\ UNCHANGED <<df, report>>

(***************************************************************************)
(* PASS 2 and PASS 3: smurfing fan-in and fan-out.                         *)
(***************************************************************************)
\* df.groupby(column): the keys, ascending
GroupKeys(ids) == SortAsc(Range(ids))

Senders(rows) == [i \in DOMAIN rows |-> rows[i].sender_id]

Receivers(rows) == [i \in DOMAIN rows |-> rows[i].receiver_id]

\* (ts.iloc[-1] - ts.iloc[0]).total_seconds() of the sorted timestamps
SpanSeconds(group) ==
    LET ts == {group[i].timestamp : i \in DOMAIN group}
    IN (CHOOSE hi \in ts : \A t \in ts : t <= hi) - (CHOOSE lo \in ts : \A t \in ts : lo <= t)

\* the receiver's rows, without the rows sent by its cycle peers
FanInGroup(st, rows, receiver) ==
    LET group == SelectSeq(rows, LAMBDA r : r.receiver_id = receiver)
        peers == _cycle_peers_of(st, receiver)
    IN IF receiver \in st.cm
       THEN SelectSeq(group, LAMBDA r : r.sender_id \notin peers)
       ELSE group

FanOutGroup(st, rows, sender) ==
    LET group == SelectSeq(rows, LAMBDA r : r.sender_id = sender)
        peers == _cycle_peers_of(st, sender)
    IN IF sender \in st.cm
       THEN SelectSeq(group, LAMBDA r : r.receiver_id \notin peers)
       ELSE group

\* the three `continue`s of the loop body and the span test
SmurfGroupPasses(group, others) ==
    /\ Len(group) >= SMURF_MIN
    /\ Len(others) >= SMURF_MIN
    /\ SpanSeconds(group) <= SMURF_WINDOW_SECONDS

FanInScore(senders) == Min(9700, 6500 + Len(senders) * 200)

FanOutScore(receivers) == Min(9700, 6500 + Len(receivers) * 150)

FanInPivot(st, rows, receiver) ==
    LET group   == FanInGroup(st, rows, receiver)
        senders == Dedup(Senders(group))
        rid     == NextRid(st, "FIN")
        score   == FanInScore(senders)
        reg     == _register_ring(_next_rid(st, "FIN"),
                       Ring(rid, senders \o <<receiver>>, "smurfing_fan_in", score, <<>>, <<>>))
        smurfs  == UpdateEach(reg, senders, [i \in DOMAIN senders |-> (score * 65) \div 100],
                              <<"smurfing_fan_in, smurf", "", 0>>, rid,
                              [i \in DOMAIN senders |-> "source"])
    IN IF ~ SmurfGroupPasses(group, senders) THEN st
       ELSE _update_account(smurfs, receiver, score,
                            <<"smurfing_fan_in, aggregator", "", 0>>, rid, "collector")

FanOutPivot(st, rows, sender) ==
    LET group     == FanOutGroup(st, rows, sender)
        receivers == Dedup(Receivers(group))
        rid       == NextRid(st, "FOUT")
        score     == FanOutScore(receivers)
        reg       == _register_ring(_next_rid(st, "FOUT"),
                         Ring(rid, <<sender>> \o receivers, "smurfing_fan_out", score, <<>>, <<>>))
        hub       == _update_account(reg, sender, score,
                                     <<"smurfing_fan_out, hub", "", 0>>, rid, "source")
    IN IF ~ SmurfGroupPasses(group, receivers) THEN st
       ELSE UpdateEach(hub, receivers, [i \in DOMAIN receivers |-> (score * 70) \div 100],
                       <<"smurfing_fan_out, mule", "", 0>>, rid,
                       [i \in DOMAIN receivers |-> "layer"])

RECURSIVE FanInFrom(_, _, _)
FanInFrom(st, rows, pivots) ==
    IF pivots = <<>> \/ ~ Evaluated(st) THEN st
    ELSE FanInFrom(FanInPivot(st, rows, pivots[1]), rows, Tail(pivots))

RECURSIVE FanOutFrom(_, _, _)
FanOutFrom(st, rows, pivots) ==
    IF pivots = <<>> \/ ~ Evaluated(st) THEN st
    ELSE FanOutFrom(FanOutPivot(st, rows, pivots[1]), rows, Tail(pivots))

_detect_smurfing_fan_in ==
    /\ pc = "fan_in"
    /\ Store(FanInFrom(Registries, df, GroupKeys(Receivers(df))))
    /\ pc' = "fan_out"
    /\ UNCHANGED <<df, report>>

_detect_smurfing_fan_out ==
    /\ pc = "fan_out"
    /\ Store(FanOutFrom(Registries, df, GroupKeys(Senders(df))))
    /\ pc' = "shell"
    /\ UNCHANGED <<df, report>>

(***************************************************************************)
(* PASS 4: layered shell networks.                                         *)
(***************************************************************************)
\* mutant: the walk does not look at `visited`
RECURSIVE _trace_shell_chain_Unvisited(_, _, _)
_trace_shell_chain_Unvisited(rows, chain, visited) ==
    LET curr  == chain[Len(chain)]
        succs == Successors(rows, curr)
        nxt   == succs[1]
    IN IF Len(chain) >= SHELL_TRACE_CAP \/ Len(succs) # 1 THEN chain
       ELSE IF nxt \in Range(chain) THEN chain
       ELSE IF _in_deg(rows, nxt) = 1 /\ _out_deg(rows, nxt) = 1
            THEN _trace_shell_chain_Unvisited(rows, Append(chain, nxt), visited)
            ELSE Append(chain, nxt)

RECURSIVE _trace_shell_chain(_, _, _)
_trace_shell_chain(rows, chain, visited) ==
    LET curr  == chain[Len(chain)]
        succs == Successors(rows, curr)
        nxt   == succs[1]
    IN IF Len(chain) >= SHELL_TRACE_CAP \/ Len(succs) # 1 THEN chain
       ELSE IF nxt \in Range(chain) \/ nxt \in visited THEN chain
       ELSE IF _in_deg(rows, nxt) = 1 /\ _out_deg(rows, nxt) = 1
            THEN _trace_shell_chain(rows, Append(chain, nxt), visited)
            ELSE Append(chain, nxt)

ShellScore(chain) == Min(9500, 6500 + Len(chain) * 500)

ShellRole(chain, i) ==
    IF i = 1 THEN "source" ELSE IF i = Len(chain) THEN "collector" ELSE "layer"

EmitShell(st, chain) ==
    LET rid   == NextRid(st, "SHELL")
        score == ShellScore(chain)
        reg   == _register_ring(_next_rid(st, "SHELL"),
                     Ring(rid, chain, "layered_shell", score, <<>>, <<>>))
    IN UpdateEach(reg, chain, [i \in DOMAIN chain |-> score],
                  <<"layered_shell, hops_", "", Len(chain)>>, rid,
                  [i \in DOMAIN chain |-> ShellRole(chain, i)])

IsShellHead(rows, node) == ~ (_in_deg(rows, node) > 1 \/ _out_deg(rows, node) # 1)

RECURSIVE ShellFrom(_, _, _, _)
ShellFrom(st, rows, nodes, visited) ==
    IF nodes = <<>> \/ ~ Evaluated(st) THEN st
    ELSE LET node  == nodes[1]
             chain == _trace_shell_chain(rows, <<node>>, visited)
         IN IF node \in visited \/ ~ IsShellHead(rows, node) \/ Len(chain) < SHELL_MIN_LEN
            THEN ShellFrom(st, rows, Tail(nodes), visited)
            ELSE IF \A n \in Range(chain) : _is_normal(n)
            THEN ShellFrom(st, rows, Tail(nodes), visited \cup Range(chain))
            ELSE ShellFrom(EmitShell(st, chain), rows, Tail(nodes), visited \cup Range(chain))

_detect_shell_networks ==
    /\ pc = "shell"
    /\ Store(ShellFrom(Registries, df, Nodes(df), {}))
    /\ pc' = "consol"
    /\ UNCHANGED <<df, report>>

(***************************************************************************)
(* PASS 5: consolidation / funnel.  A pass that branches on an iteration   *)
(* order is the set of the registries it can end with.                     *)
(***************************************************************************)
\* mutant: every sender to t counts as a mule, a successor of the hub or not
CollectorMules_AnySender(rows, node, t) ==
    {s \in NodeSet(rows) : t \in Range(Successors(rows, s))}

\* collector_mules[t] for hub `node`
CollectorMules(rows, node, t) ==
    {s \in Range(Successors(rows, node)) : t \in Range(Successors(rows, s))}

\* the keys of collector_mules: every successor, other than the hub, of a
\* successor of the hub
Collectors(rows, node) ==
    UNION {Range(Successors(rows, s)) : s \in Range(Successors(rows, node))} \ {node}

EmitConsolidation(st, rows, node, collector) ==
    LET mules     == SortAsc(CollectorMules(rows, node, collector))
        is_funnel == node \notin st.cm
        ptype     == IF is_funnel THEN "funnel" ELSE "consolidation"
        prefix    == IF is_funnel THEN "FUNNEL" ELSE "CONSOL"
        rid       == NextRid(st, prefix)
        score     == 9400
        reg       == _register_ring(_next_rid(st, prefix),
                         Ring(rid, mules \o <<node, collector>>, ptype, score, <<>>, <<>>))
        hub       == _update_account(reg, node, score, <<ptype, ", hub_source", 0>>,
                                     rid, "source")
        sink      == _update_account(hub, collector, score, <<ptype, ", collection_sink", 0>>,
                                     rid, "collector")
    IN UpdateEach(sink, mules, [i \in DOMAIN mules |-> score], <<ptype, ", mule", 0>>, rid,
                  [i \in DOMAIN mules |-> "layer"])

\* the inner loop over collector_mules.items(), in the order `collectors`;
\* a run is [st, found]
RECURSIVE ConsolCollectors(_, _, _, _)
ConsolCollectors(run, rows, node, collectors) ==
    IF collectors = <<>> \/ ~ Evaluated(run) THEN run
    ELSE IF Cardinality(CollectorMules(rows, node, collectors[1])) < CONSOL_MIN
            \/ run.found >= MAX_RINGS
         THEN ConsolCollectors(run, rows, node, Tail(collectors))
         ELSE ConsolCollectors(
                  [st |-> EmitConsolidation(run.st, rows, node, collectors[1]),
                   found |-> run.found + 1],
                  rows, node, Tail(collectors))

\* dict order of collector_mules follows the iteration of the set succs
ConsolHub(run, rows, node) ==
    IF Len(Successors(rows, node)) < CONSOL_MIN THEN {run}
    ELSE {ConsolCollectors(run, rows, node, o) :
             o \in Orders({t \in Collectors(rows, node) :
                              Cardinality(CollectorMules(rows, node, t)) >= CONSOL_MIN})}

RECURSIVE ConsolFrom(_, _, _)
ConsolFrom(runs, rows, nodes) ==
    IF nodes = <<>> \/ ~ Evaluated(runs) THEN runs
    ELSE ConsolFrom(UNION {IF run.found >= MAX_RINGS THEN {run}
                           ELSE ConsolHub(run, rows, nodes[1]) : run \in runs},
                    rows, Tail(nodes))

_detect_consolidation_rings ==
    /\ pc = "consol"
    /\ \E run \in ConsolFrom({[st |-> Registries, found |-> 0]}, df, Nodes(df)) :
          Store(run.st)
    /\ pc' = "cross"
    /\ UNCHANGED <<df, report>>

(***************************************************************************)
(* PASS 6: cross-pattern overlaps.                                         *)
(***************************************************************************)
OVERLAP_PAIRS ==
    << <<"smurfing_fan_in",  "cycle",           "smurfing_fan_in->cycle">>,
       <<"smurfing_fan_out", "cycle",           "smurfing_fan_out->cycle">>,
       <<"layered_shell",    "cycle",           "layered_shell->cycle">>,
       <<"smurfing_fan_out", "layered_shell",   "smurfing_fan_out->layered_shell">>,
       <<"consolidation",    "cycle",           "consolidation->cycle">>,
       <<"layered_shell",    "smurfing_fan_in", "layered_shell->smurfing_fan_in">> >>

\* acc_a / acc_b: each account of the rings, mapped to the last ring that has it
AccountRing(st, rings) ==
    [acc \in UNION {Get(st.rm, rings[i], {}) : i \in DOMAIN rings} |->
        rings[CHOOSE i \in DOMAIN rings :
                 /\ acc \in Get(st.rm, rings[i], {})
                 /\ \A j \in DOMAIN rings : acc \in Get(st.rm, rings[j], {}) => j <= i]]

\* [...][:10] of a list made from a set: any 10 of them when there are more
SideCuts(S) ==
    IF Cardinality(S) <= CROSS_SIDE_CAP THEN {S}
    ELSE {T \in SUBSET S : Cardinality(T) = CROSS_SIDE_CAP}

\* mutant: the bridges are grouped by their ring of type A alone
CrossBridges_ByRingA(acc_a, acc_b, rid_a, rid_b) ==
    {acc \in DOMAIN acc_a \cap DOMAIN acc_b : acc_a[acc] = rid_a}

\* pair_map[(rid_a, rid_b)]
CrossBridges(acc_a, acc_b, rid_a, rid_b) ==
    {acc \in DOMAIN acc_a \cap DOMAIN acc_b : acc_a[acc] = rid_a /\ acc_b[acc] = rid_b}

EmitCross(st, label, rid_a, rid_b, blist, cut_a, cut_b) ==
    LET ma        == Get(st.rm, rid_a, {})
        mb        == Get(st.rm, rid_b, {})
        deduped   == Dedup(SortAsc(blist) \o SortAsc(cut_a) \o SortAsc(cut_b))
        rid_cross == NextRid(st, "CROSS")
        score     == 9800
        reg       == _register_ring(_next_rid(st, "CROSS"),
                         Ring(rid_cross, deduped, label, score, SortAsc(blist),
                              <<rid_a, rid_b>>))
        bl        == SortAsc(blist)
        la        == SortAsc(ma \ blist)
        lb        == SortAsc(mb \ blist)
        bridged   == UpdateEach(reg, bl, [i \in DOMAIN bl |-> score],
                                <<"bridge: ", label, 0>>, rid_cross,
                                [i \in DOMAIN bl |-> "collector"])
        side_a    == UpdateEach(bridged, la, [i \in DOMAIN la |-> (score * 90) \div 100],
                                <<"bridge_member: ", label, 0>>, rid_cross,
                                [i \in DOMAIN la |-> "layer"])
    IN UpdateEach(side_a, lb, [i \in DOMAIN lb |-> (score * 90) \div 100],
                  <<"bridge_member: ", label, 0>>, rid_cross,
                  [i \in DOMAIN lb |-> "layer"])

\* the loop over pair_map.items(), in the order `keys`; a run is [st, seen]
RECURSIVE CrossKeys(_, _, _, _, _)
CrossKeys(runs, label, acc_a, acc_b, keys) ==
    IF keys = <<>> \/ ~ Evaluated(runs) THEN runs
    ELSE LET rid_a == keys[1][1]
             rid_b == keys[1][2]
             key   == <<rid_a, rid_b, label>>
             blist == CrossBridges(acc_a, acc_b, rid_a, rid_b)
             step  == UNION {IF key \in run.seen_bridges THEN {run}
                             ELSE {[st |-> EmitCross(run.st, label, rid_a, rid_b, blist,
                                                      cut_a, cut_b),
                                    seen_bridges |-> run.seen_bridges \cup {key}] :
                                      cut_a \in SideCuts(Get(run.st.rm, rid_a, {}) \ blist),
                                      cut_b \in SideCuts(Get(run.st.rm, rid_b, {}) \ blist)}
                             : run \in runs}
         IN CrossKeys(step, label, acc_a, acc_b, Tail(keys))

\* one entry of OVERLAP_PAIRS; the base rings are those of the registries
\* before the pass (a cross ring's pattern_type is a label, never a base type)
CrossPair(runs, st0, pair) ==
    LET rings_a == Get(st0.rbt, pair[1], <<>>)
        rings_b == Get(st0.rbt, pair[2], <<>>)
        acc_a   == AccountRing(st0, rings_a)
        acc_b   == AccountRing(st0, rings_b)
        bridges == DOMAIN acc_a \cap DOMAIN acc_b
        keys    == {<<acc_a[acc], acc_b[acc]>> : acc \in bridges}
    IN IF rings_a = <<>> \/ rings_b = <<>> \/ bridges = {} THEN runs
       ELSE UNION {CrossKeys(runs, pair[3], acc_a, acc_b, o) : o \in Orders(keys)}

RECURSIVE CrossFrom(_, _, _)
CrossFrom(runs, st0, pairs) ==
    IF pairs = <<>> \/ ~ Evaluated(runs) THEN runs
    ELSE CrossFrom(CrossPair(runs, st0, pairs[1]), st0, Tail(pairs))

_detect_cross_pattern_overlaps ==
    /\ pc = "cross"
    /\ \E run \in CrossFrom({[st |-> Registries, seen_bridges |-> {}]}, Registries,
                            OVERLAP_PAIRS) :
          Store(run.st)
    /\ pc' = "format"
    /\ UNCHANGED <<df, report>>

(***************************************************************************)
(* The report.                                                             *)
(***************************************************************************)
\* sorted(values, key=suspicion_score, reverse=True): stable
SortedByScore(sa) ==
    LET Rank(i) == Cardinality({j \in DOMAIN sa :
                       \/ sa[j].suspicion_score > sa[i].suspicion_score
                       \/ sa[j].suspicion_score = sa[i].suspicion_score /\ j < i}) + 1
    IN [k \in DOMAIN sa |-> sa[CHOOSE i \in DOMAIN sa : Rank(i) = k]]

\* processing_time_seconds is a reading of the wall clock
_format_output ==
    /\ pc = "format"
    /\ \E elapsed \in 0..1 :
          report' = [suspicious_accounts |-> SortedByScore(suspicious_accounts),
                     fraud_rings |-> fraud_rings,
                     summary |-> [total_accounts_analyzed |-> Cardinality(NodeSet(df)),
                                  suspicious_accounts_flagged |-> Len(suspicious_accounts),
                                  fraud_rings_detected |-> Len(fraud_rings),
                                  processing_time_seconds |-> elapsed]]
    /\ pc' = "done"
    /\ UNCHANGED <<df, suspicious_accounts, fraud_rings, ring_counters, _ring_members,
                   _account_rings, _rings_by_type, _cycle_members, calls>>

Init ==
    /\ df \in Inputs
    /\ pc = "cycles"
    /\ suspicious_accounts = <<>>
    /\ fraud_rings = <<>>
    /\ ring_counters = [p \in {"CYC", "FIN", "FOUT", "SHELL", "CONSOL", "FUNNEL", "CROSS"} |-> 1]
    /\ _ring_members = <<>>
    /\ _account_rings = <<>>
    /\ _rings_by_type = <<>>
    /\ _cycle_members = {}
    /\ calls = {}
    /\ report = [suspicious_accounts |-> <<>>, fraud_rings |-> <<>>,
                 summary |-> [total_accounts_analyzed |-> 0,
                              suspicious_accounts_flagged |-> 0,
                              fraud_rings_detected |-> 0,
                              processing_time_seconds |-> 0]]

Next ==
    \/ _detect_cycles
    \/ _detect_smurfing_fan_in
    \/ _detect_smurfing_fan_out
    \/ _detect_shell_networks
    \/ _detect_consolidation_rings
    \/ _detect_cross_pattern_overlaps
    \/ _format_output

Spec == Init /\ [][Next]_vars
(***************************************************************************)
(* The merchant classification of the specification (Merchant Identifier): *)
(* the analyzer has no counterpart of it.  The thresholds are the upper    *)
(* ends of the documented defaults, and the span is that of the incoming   *)
(* transactions alone, so an account that is a merchant here is one under  *)
(* every documented setting.                                               *)
(***************************************************************************)
MERCHANT_MIN_IN_DEG == 30
MERCHANT_MAX_OUT_DEG == 3
MERCHANT_MIN_SPAN_DAYS == 30

IsMerchant(rows, account) ==
    LET incoming == SelectSeq(rows, LAMBDA r : r.receiver_id = account)
    IN /\ _in_deg(rows, account) >= MERCHANT_MIN_IN_DEG
       /\ _out_deg(rows, account) <= MERCHANT_MAX_OUT_DEG
       /\ SpanSeconds(incoming) >= MERCHANT_MIN_SPAN_DAYS * DaySeconds

(***************************************************************************)
(* Vocabulary of the properties.                                           *)
(***************************************************************************)
Members(ring) == Range(ring.member_accounts)

RingsOfType(rings, ptypes) == {i \in DOMAIN rings : rings[i].pattern_type \in ptypes}

SuspiciousIds(accounts) == {accounts[i].account_id : i \in DOMAIN accounts}

IsCross(ring) == ring.overlap_with # <<>>

\* some 72-hour window holds at least SMURF_MIN transactions of the group
DenseWindow(group) ==
    \E i \in DOMAIN group :
        Cardinality({j \in DOMAIN group :
                        /\ group[j].timestamp >= group[i].timestamp
                        /\ group[j].timestamp <= group[i].timestamp + SMURF_WINDOW_SECONDS})
            >= SMURF_MIN

\* Python's list.count(x) > 1 for no x
Distinct(s) == \A i, j \in DOMAIN s : s[i] = s[j] => i = j

(***************************************************************************)
(* C1: in the report, an account is in suspicious_accounts if and only if  *)
(* some ring of fraud_rings lists it in member_accounts or bridge_nodes.   *)
(***************************************************************************)
C1_SuspiciousIffListed ==
    pc = "done" =>
        SuspiciousIds(report.suspicious_accounts)
            = UNION {Members(report.fraud_rings[k]) \cup Range(report.fraud_rings[k].bridge_nodes) :
                        k \in DOMAIN report.fraud_rings}

\* a report with a cross ring that cut a base ring's members to ten
C1_Witness ==
    /\ pc = "done"
    /\ \E k \in DOMAIN report.fraud_rings :
          /\ IsCross(report.fraud_rings[k])
          /\ \E a \in SuspiciousIds(report.suspicious_accounts) :
                /\ a \in _ring_members[report.fraud_rings[k].overlap_with[1]]
                /\ a \notin Members(report.fraud_rings[k])

(***************************************************************************)
(* C2: the ring_id of a suspicious account is the id of the first ring of  *)
(* fraud_rings, in registration order, whose member_accounts has the       *)
(* account; it holds after every pass, so no later update changes it.      *)
(***************************************************************************)
FirstRingOf(rings, account, rid) ==
    \E k \in DOMAIN rings :
        /\ rings[k].ring_id = rid
        /\ account \in Members(rings[k])
        /\ \A j \in 1..(k - 1) : account \notin Members(rings[j])

C2_RingIdIsFirstRing ==
    /\ \A i \in DOMAIN suspicious_accounts :
          FirstRingOf(fraud_rings, suspicious_accounts[i].account_id,
                      suspicious_accounts[i].ring_id)
    /\ \A i \in DOMAIN report.suspicious_accounts :
          FirstRingOf(report.fraud_rings, report.suspicious_accounts[i].account_id,
                      report.suspicious_accounts[i].ring_id)

\* an account updated for three rings, the last a cross ring
C2_Witness ==
    /\ pc = "done"
    /\ \E i \in DOMAIN report.suspicious_accounts :
          /\ Len(report.suspicious_accounts[i].detected_patterns) >= 3
          /\ Cardinality({k \in DOMAIN fraud_rings :
                report.suspicious_accounts[i].account_id \in Members(fraud_rings[k])}) >= 3

(***************************************************************************)
(* C3: every suspicion_score and every risk_score is between 0 and         *)
(* SCORE_CAP = 100 (10000 hundredths), after every pass.                   *)
(***************************************************************************)
C3_ScoresInRange ==
    /\ \A i \in DOMAIN suspicious_accounts :
          /\ suspicious_accounts[i].suspicion_score >= 0
          /\ suspicious_accounts[i].suspicion_score <= 100 * 100
    /\ \A k \in DOMAIN fraud_rings :
          /\ fraud_rings[k].risk_score >= 0
          /\ fraud_rings[k].risk_score <= 100 * 100

\* an account whose score was merged from two passes' updates
C3_Witness ==
    \E i \in DOMAIN suspicious_accounts :
        /\ Len(suspicious_accounts[i].detected_patterns) >= 2
        /\ suspicious_accounts[i].suspicion_score = 9800

(***************************************************************************)
(* C4: every cycle ring has between CYCLE_MIN = 3 and CYCLE_MAX = 6        *)
(* members, and its member_accounts are in ascending order.                *)
(***************************************************************************)
C4_CycleLengthAndSorted ==
    \A k \in RingsOfType(fraud_rings, {"cycle"}) :
        LET m == fraud_rings[k].member_accounts
        IN /\ Len(m) >= CYCLE_MIN_LEN
           /\ Len(m) <= CYCLE_LENGTH_BOUND
           /\ \A i \in 1..(Len(m) - 1) : m[i] < m[i + 1]

(***************************************************************************)
(* C5: for every smurfing ring, the pivot is not a merchant, no listed     *)
(* counterparty is a cycle peer of the pivot, and the pivot's transactions *)
(* without those of its cycle peers have a dense 72-hour window.           *)
(***************************************************************************)
SmurfRingHolds(ring, pivot, others, group) ==
    /\ ~ IsMerchant(df, pivot)
    /\ Range(others) \cap _cycle_peers_of(Registries, pivot) = {}
    /\ DenseWindow(group)

C5_SmurfRingFiltered ==
    /\ \A k \in RingsOfType(fraud_rings, {"smurfing_fan_in"}) :
          LET m == fraud_rings[k].member_accounts
          IN SmurfRingHolds(fraud_rings[k], m[Len(m)], SubSeq(m, 1, Len(m) - 1),
                            FanInGroup(Registries, df, m[Len(m)]))
    /\ \A k \in RingsOfType(fraud_rings, {"smurfing_fan_out"}) :
          LET m == fraud_rings[k].member_accounts
          IN SmurfRingHolds(fraud_rings[k], m[1], Tail(m),
                            FanOutGroup(Registries, df, m[1]))

(***************************************************************************)
(* C6: once the fan-in (fan-out) pass has run, every pivot that is no      *)
(* merchant, whose filtered group has at least SMURF_MIN distinct          *)
(* counterparties and a dense 72-hour window, has a smurfing ring, also    *)
(* when other transactions of the group lie outside that window.           *)
(***************************************************************************)
C6_DenseWindowEmits ==
    /\ pc \notin {"cycles", "fan_in"} =>
          \A p \in Range(Receivers(df)) :
              LET group == FanInGroup(Registries, df, p)
              IN (/\ ~ IsMerchant(df, p)
                  /\ Cardinality(Range(Senders(group))) >= SMURF_MIN
                  /\ DenseWindow(group))
                 => \E k \in RingsOfType(fraud_rings, {"smurfing_fan_in"}) :
                       fraud_rings[k].member_accounts
                           = Dedup(Senders(group)) \o <<p>>
    /\ pc \notin {"cycles", "fan_in", "fan_out"} =>
          \A p \in Range(Senders(df)) :
              LET group == FanOutGroup(Registries, df, p)
              IN (/\ ~ IsMerchant(df, p)
                  /\ Cardinality(Range(Receivers(group))) >= SMURF_MIN
                  /\ DenseWindow(group))
                 => \E k \in RingsOfType(fraud_rings, {"smurfing_fan_out"}) :
                       fraud_rings[k].member_accounts
                           = <<p>> \o Dedup(Receivers(group))

(***************************************************************************)
(* C7: every layered_shell ring has at least SHELL_MIN_HOPS = 3 members,   *)
(* pairwise distinct and in trace order (the one successor of each member  *)
(* is the next member); its first member has in-degree at most 1 and       *)
(* out-degree 1; and no account is in two layered_shell rings.             *)
(***************************************************************************)
C7_ShellChains ==
    /\ \A k \in RingsOfType(fraud_rings, {"layered_shell"}) :
          LET m == fraud_rings[k].member_accounts
          IN /\ Len(m) >= SHELL_MIN_LEN
             /\ Distinct(m)
             /\ \A i \in 1..(Len(m) - 1) : Successors(df, m[i]) = <<m[i + 1]>>
             /\ _in_deg(df, m[1]) <= 1
             /\ _out_deg(df, m[1]) = 1
    /\ \A j, k \in RingsOfType(fraud_rings, {"layered_shell"}) :
          j # k => Members(fraud_rings[j]) \cap Members(fraud_rings[k]) = {}

\* two shell rings of one run, the case the disjointness is about
C7_Witness ==
    /\ pc = "done"
    /\ Cardinality(RingsOfType(fraud_rings, {"layered_shell"})) >= 2

(***************************************************************************)
(* C8: for every consolidation or funnel ring with hub h, collector t and  *)
(* mules M: |M| >= 3, h # t, and the graph has h -> m and m -> t for every *)
(* m in M.  (member_accounts is list(mules) + [h, t].)                     *)
(***************************************************************************)
C8_Diamonds ==
    \A k \in RingsOfType(fraud_rings, {"consolidation", "funnel"}) :
        LET m == fraud_rings[k].member_accounts
            h == m[Len(m) - 1]
            t == m[Len(m)]
            M == {m[i] : i \in 1..(Len(m) - 2)}
        IN /\ Len(m) >= 2
           /\ Cardinality(M) >= 3
           /\ h # t
           /\ \A x \in M : <<h, x>> \in EdgeSet(df) /\ <<x, t>> \in EdgeSet(df)

\* a consolidation ring whose collector is also paid by an account that is
\* no mule of the ring
C8_Witness ==
    /\ pc = "done"
    /\ \E k \in RingsOfType(fraud_rings, {"consolidation"}) :
          LET m == fraud_rings[k].member_accounts
          IN \E s \in NodeSet(df) :
                /\ <<s, m[Len(m)]>> \in EdgeSet(df)
                /\ s \notin {m[i] : i \in 1..(Len(m) - 2)}

(***************************************************************************)
(* C9: for every cross ring, every account of bridge_nodes is in its       *)
(* member_accounts and is a member of both base rings named by             *)
(* overlap_with.                                                           *)
(***************************************************************************)
C9_Bridges ==
    \A k \in DOMAIN fraud_rings :
        IsCross(fraud_rings[k]) =>
            /\ fraud_rings[k].bridge_nodes # <<>>
            /\ \A b \in Range(fraud_rings[k].bridge_nodes) :
                  /\ b \in Members(fraud_rings[k])
                  /\ \A s \in 1..2 :
                        \E j \in DOMAIN fraud_rings :
                            /\ fraud_rings[j].ring_id = fraud_rings[k].overlap_with[s]
                            /\ ~ IsCross(fraud_rings[j])
                            /\ b \in Members(fraud_rings[j])

\* three cross rings of one label, over three cycle rings
C9_Witness ==
    /\ pc = "done"
    /\ \E j, k \in DOMAIN fraud_rings :
          /\ j # k
          /\ IsCross(fraud_rings[j]) /\ IsCross(fraud_rings[k])
          /\ fraud_rings[j].overlap_with[1] = fraud_rings[k].overlap_with[1]
          /\ fraud_rings[j].overlap_with[2] # fraud_rings[k].overlap_with[2]

(***************************************************************************)
(* C10: a merchant account never appears in suspicious_accounts, whichever *)
(* pass touches it.                                                        *)
(***************************************************************************)
C10_MerchantShield ==
    \A a \in NodeSet(df) :
        IsMerchant(df, a) => a \notin SuspiciousIds(suspicious_accounts)
(***************************************************************************)
(* C11: every ring of fraud_rings carries a total_amount, the sum of the   *)
(* amounts of the input transactions (parallel ones counted one by one)    *)
(* whose sender and receiver are both members of the ring.                 *)
(***************************************************************************)
RECURSIVE AmountWithin(_, _)
AmountWithin(rows, S) ==
    IF rows = <<>> THEN 0
    ELSE (IF rows[1].sender_id \in S /\ rows[1].receiver_id \in S
          THEN rows[1].amount ELSE 0)
         + AmountWithin(Tail(rows), S)

C11_TotalAmount ==
    \A k \in DOMAIN fraud_rings :
        /\ "total_amount" \in DOMAIN fraud_rings[k]
        /\ fraud_rings[k].total_amount = AmountWithin(df, Members(fraud_rings[k]))
(***************************************************************************)
(* detect_patterns as a function of the rows: the registries the six       *)
(* passes can end with, composed of the operators the actions apply.       *)
(***************************************************************************)
FreshRegistries ==
    [sa  |-> <<>>, fr |-> <<>>,
     rc  |-> [p \in {"CYC", "FIN", "FOUT", "SHELL", "CONSOL", "FUNNEL", "CROSS"} |-> 1],
     rm  |-> <<>>, ar |-> <<>>, rbt |-> <<>>, cm |-> {}, calls |-> {}]

detect_patterns(rows) ==
    LET cycles == {EmitCycles(FreshRegistries, c) : c \in CycleEmissions(rows)}
        fan_in == {FanInFrom(st, rows, GroupKeys(Receivers(rows))) : st \in cycles}
        fan_out == {FanOutFrom(st, rows, GroupKeys(Senders(rows))) : st \in fan_in}
        shell  == {ShellFrom(st, rows, Nodes(rows), {}) : st \in fan_out}
        consol == UNION {{run.st : run \in ConsolFrom({[st |-> st, found |-> 0]},
                                                       rows, Nodes(rows))} : st \in shell}
    IN UNION {{run.st : run \in CrossFrom({[st |-> st, seen_bridges |-> {}]}, st,
                                          OVERLAP_PAIRS)} : st \in consol}

(***************************************************************************)
(* C12: two inputs with the same transactions in a different row order     *)
(* give the same collection of ring member sets per pattern_type: whatever *)
(* rings this run reported, the run on a shuffled input can report rings   *)
(* with the same member sets and types (ring ids aside).                   *)
(***************************************************************************)
RingSets(rings) == {<<rings[k].pattern_type, Members(rings[k])>> : k \in DOMAIN rings}

\* the reversal and every exchange of two neighbouring rows
Shuffles(rows) ==
    {[i \in DOMAIN rows |-> rows[Len(rows) + 1 - i]]}
    \cup {[i \in DOMAIN rows |-> IF i = j THEN rows[j + 1]
                                 ELSE IF i = j + 1 THEN rows[j] ELSE rows[i]] :
             j \in 1..(Len(rows) - 1)}

C12_ShuffleInvariant ==
    pc = "done" =>
        \A shuffled \in Shuffles(df) :
            RingSets(report.fraud_rings)
                \in {RingSets(st.fr) : st \in detect_patterns(shuffled)}
(***************************************************************************)
(* C13: scenario S1.  For the input A -> B, B -> C, C -> D, D -> A alone,  *)
(* the report has exactly one cycle ring, its member_accounts [A, B, C, D] *)
(* and its risk_score 96.0, and in suspicious_accounts A has role source   *)
(* while B, C and D have role layer.                                       *)
(***************************************************************************)
RoleOf(accounts, account) ==
    {accounts[i].role : i \in {j \in DOMAIN accounts : accounts[j].account_id = account}}

C13_ScenarioS1 ==
    (pc = "done" /\ df = S1Rows) =>
        /\ \E k \in RingsOfType(report.fraud_rings, {"cycle"}) :
              /\ RingsOfType(report.fraud_rings, {"cycle"}) = {k}
              /\ report.fraud_rings[k].member_accounts = <<1, 2, 3, 7>>
              /\ report.fraud_rings[k].risk_score = 9600
        /\ RoleOf(report.suspicious_accounts, 1) = {"source"}
        /\ \A a \in {2, 3, 7} : RoleOf(report.suspicious_accounts, a) = {"layer"}

(***************************************************************************)
(* C14: scenario S3.  For the chain S -> M1 -> M2 -> M3 -> M4 -> D alone,  *)
(* the report has exactly one layered_shell ring, of length 5 (the five    *)
(* hops of the chain) and risk_score min(95, 65 + 25) = 90, with S role    *)
(* source, D role collector and the middle accounts role layer.            *)
(***************************************************************************)
C14_ScenarioS3 ==
    (pc = "done" /\ df = S3Rows) =>
        /\ \E k \in RingsOfType(report.fraud_rings, {"layered_shell"}) :
              /\ RingsOfType(report.fraud_rings, {"layered_shell"}) = {k}
              /\ Len(report.fraud_rings[k].member_accounts) - 1 = 5
              /\ report.fraud_rings[k].risk_score = 9000
        /\ RoleOf(report.suspicious_accounts, 26) = {"source"}
        /\ RoleOf(report.suspicious_accounts, 21) = {"collector"}
        /\ \A a \in 22..25 : RoleOf(report.suspicious_accounts, a) = {"layer"}
(***************************************************************************)
(* C15: after any sequence of _update_account calls, an account's role is  *)
(* the role of highest priority (collector 3 > source 2 > layer 1) among   *)
(* the roles passed for it, so it never moves to a lower one, and its      *)
(* suspicion_score is the greatest of the scores passed for it.            *)
(***************************************************************************)
CallsFor(account) == {c \in calls : c[1] = account}

C15_RoleAndScoreAreMaxima ==
    \A i \in DOMAIN suspicious_accounts :
        LET rec  == suspicious_accounts[i]
            mine == CallsFor(rec.account_id)
        IN /\ \E c \in mine : c[3] = rec.role
           /\ \A c \in mine : _ROLE_PRIORITY(c[3]) <= _ROLE_PRIORITY(rec.role)
           /\ \E c \in mine : c[2] = rec.suspicion_score
           /\ \A c \in mine : c[2] <= rec.suspicion_score

\* an account updated with all three roles and with three different scores
C15_Witness ==
    \E i \in DOMAIN suspicious_accounts :
        LET mine == CallsFor(suspicious_accounts[i].account_id)
        IN /\ {c[3] : c \in mine} = {"collector", "source", "layer"}
           /\ Cardinality({c[2] : c \in mine}) >= 3
(***************************************************************************)
(* C16: the passes run in the order cycle, fan-in, fan-out, shell,         *)
(* consolidation/funnel, cross-overlap; so in fraud_rings the cycle rings  *)
(* come first, then the smurfing_fan_in rings, the smurfing_fan_out rings, *)
(* the layered_shell rings, the consolidation and funnel rings and the     *)
(* cross rings; and _cycle_members never changes once the cycle pass has   *)
(* ended.                                                                  *)
(***************************************************************************)
PassOfRing(ring) ==
    IF IsCross(ring) THEN 6
    ELSE CASE ring.pattern_type = "cycle"            -> 1
           [] ring.pattern_type = "smurfing_fan_in"  -> 2
           [] ring.pattern_type = "smurfing_fan_out" -> 3
           [] ring.pattern_type = "layered_shell"    -> 4
           [] OTHER                                  -> 5

PassOrder == <<"cycles", "fan_in", "fan_out", "shell", "consol", "cross", "format", "done">>

C16_PassOrder ==
    [][/\ \E n \in 1..(Len(PassOrder) - 1) : pc = PassOrder[n] /\ pc' = PassOrder[n + 1]
       /\ \A j, k \in DOMAIN fraud_rings' :
             j < k => PassOfRing(fraud_rings'[j]) <= PassOfRing(fraud_rings'[k])
       /\ pc # "cycles" => _cycle_members' = _cycle_members]_vars

\* a finished run whose rings come from four passes, the cycle pass among them
C16_Witness ==
    /\ pc = "done"
    /\ _cycle_members # {}
    /\ Cardinality({PassOfRing(fraud_rings[k]) : k \in DOMAIN fraud_rings}) >= 4
(***************************************************************************)
(* C17: once the cycle pass has run, for every strongly connected          *)
(* component of at least 3 nodes that is not made of CLN accounts alone,   *)
(* every simple cycle of 3 to 6 nodes of its induced subgraph is a cycle   *)
(* ring of its own (fewer than MAX_CYCLES rings being emitted), whether or *)
(* not the component has self-loops or 2-cycles and whatever the order of  *)
(* the enumeration.                                                        *)
(***************************************************************************)
\* the simple cycles of the component, each written from its least node
SimpleCyclesOf(E, scc) ==
    LET plain == {e \in Induced(E, scc) : e[1] # e[2]}
    IN {p \in UNION {BoundedCycleSearch(plain, <<v>>) : v \in scc} :
           /\ Len(p) >= CYCLE_MIN_LEN
           /\ \A i \in DOMAIN p : p[1] <= p[i]}

IsRotation(s, t) ==
    /\ Len(s) = Len(t)
    /\ \E r \in 0..(Len(s) - 1) : \A i \in DOMAIN s : t[i] = s[((i - 1 + r) % Len(s)) + 1]

C17_EveryCycleEmitted ==
    pc # "cycles" =>
        \A scc \in StronglyConnectedComponents(EdgeSet(df), NodeSet(df)) :
            (/\ Cardinality(scc) >= CYCLE_MIN_LEN
             /\ ~ \A n \in scc : _is_normal(n)
             /\ Cardinality(RingsOfType(fraud_rings, {"cycle"})) < MAX_CYCLES)
            => \A c \in SimpleCyclesOf(EdgeSet(df), scc) :
                  \E k \in RingsOfType(fraud_rings, {"cycle"}) :
                      IsRotation(c, fraud_rings[k].member_accounts)
(***************************************************************************)
(* C18: the member_accounts of every registered ring, of every pass, has   *)
(* no account more than once; also when a fan pivot transacts with itself, *)
(* and when the hub or the collector of a consolidation or funnel ring is  *)
(* one of its own mules through a self-loop.                               *)
(***************************************************************************)
C18_NoDuplicateMembers ==
    \A k \in DOMAIN fraud_rings : Distinct(fraud_rings[k].member_accounts)
====
